---- MODULE Spec2Model ----
(***************************************************************************)
(* jarvis-tibber-price-exporter: ExporterService::run and the clients it   *)
(* drives (TibberClient, BigqueryClient, StateClient).                     *)
(*                                                                         *)
(* Time is counted in whole hours.  A run is one invocation of             *)
(* ExporterService::run; its local variables live in a frame p.  Spec is   *)
(* the deployment the scheduler gives (one invocation at a time, frame 1); *)
(* SpecOverlap lets two invocations overlap against the same state store   *)
(* and table.  SpecFetch is one invocation that the pricing API answers    *)
(* with price_info, a response chosen at the start; SpecLive is one        *)
(* invocation that is never left waiting for a call to return; SpecPair    *)
(* and SpecHourly are two invocations one after the other.                 *)
(***************************************************************************)
EXTENDS Integers, Sequences, FiniteSets, TLC

\* ------------------------------------------------------------- bounds
\* window starts offered by the pricing API are 1..MaxTime
MaxTime == 2
\* |today| + |tomorrow| of one response is at most MaxLen
MaxLen == 2
\* Utc::now() at the start of a run is in 1..MaxNow
MaxNow == 2
\* a run starts only while the table can still take every row it may insert
MaxRows == 4
\* the random factor of jitter is one of k / JitterSteps, k in 0..JitterSteps-1
JitterSteps == 4

\* ------------------------------------------------- program constants
\* chrono::Duration::hours(1)
Hour == 1
\* ExponentialBackoff::from_millis(100).map(jitter).take(3): three delays,
\* so Retry::spawn makes the first attempt and at most three more
RetryDelays == 3
\* ExponentialBackoff::from_millis(100)
BackoffBase == 100

\* the invocations that may be active at once
Procs == {1, 2}

\* Option<T>: None is the empty sequence, Some(x) the one-element sequence
None == << >>
Some(x) == << x >>
is_some(o) == o # None
unwrap(o) == o[1]

Times == 1..MaxTime

RECURSIVE SeqsUpTo(_, _)
SeqsUpTo(S, n) ==
    IF n = 0 THEN { << >> }
    ELSE LET shorter == SeqsUpTo(S, n - 1)
         IN shorter \cup { Append(s, x) : s \in { t \in shorter : Len(t) = n - 1 }, x \in S }

\* Result<_, Box<dyn Error>> of one call: Ok, or Err carrying the error
OkResult == [tag |-> "Ok", op |-> "none", kind |-> "none"]
Err(op, kind) == [tag |-> "Err", op |-> op, kind |-> kind]
Pending == [tag |-> "pending", op |-> "none", kind |-> "none"]
Panicked == [tag |-> "panic", op |-> "get_spot_prices", kind |-> "index out of bounds"]
\* the errors a call to the pricing API or to BigQuery can end with
ErrorKinds == {"transient", "fatal"}
\* these and the failure of the state write: what a specification lets fail
Faults == ErrorKinds \cup {"storage"}

VARIABLES
    bq_enable, bq_init, state_enable,
    state_file, table,
    pc, result, now, state, spot_prices, idx, attempt, last_result,
    future_spot_prices, last_from, inserted, store_calls, fetch_attempts,
    file_at_start, overlapped,
    price_info, waited, delay_bound

config == << bq_enable, bq_init, state_enable >>
frame == << pc, result, now, state, spot_prices, idx, attempt, last_result,
            future_spot_prices, last_from, inserted, store_calls, fetch_attempts >>
history == << file_at_start, overlapped >>
vars == << config, state_file, table, frame, history, price_info, waited, delay_bound >>

\* ------------------------------------------------------------ types.rs
SpotPrice(id, source, from, till) ==
    [id |-> id, source |-> source, from |-> from, till |-> till]

State(future, last) == [future_spot_prices |-> future, last_from |-> last]

\* ----------------------------------------------------- tibber_client.rs
RECURSIVE to_spot_prices(_)
to_spot_prices(prices) ==
    IF prices = << >> THEN << >>
    ELSE << SpotPrice(None, None, Head(prices), Head(prices) + Hour) >>
         \o to_spot_prices(Tail(prices))

\* the two loops of lines 91-123 in the other order
get_spot_prices_swapped(today, tomorrow) == to_spot_prices(tomorrow) \o to_spot_prices(today)

get_spot_prices(today, tomorrow) == to_spot_prices(today) \o to_spot_prices(tomorrow)

\* ------------------------------------------------------ state_client.rs
\* state_file is what read_state finds at state_file_path: the key of the
\* configmap that store_state replaces, as the volume mount shows it.  It is
\* absent, or holds text that does not parse, until a state is stored.
AbsentFile == [kind |-> "absent", state |-> None]
UnparsableFile == [kind |-> "unparsable", state |-> None]
\* serde_yaml::to_string(state)
to_yaml(st) == [kind |-> "yaml", state |-> Some(st)]
\* serde_yaml::from_str(contents)
from_yaml(file) == IF file.kind = "yaml" THEN file.state ELSE None

\* read_state with the enable test inverted
read_state_disabled(enable, file) ==
    IF enable THEN None
    ELSE IF file.kind = "absent" THEN None
    ELSE from_yaml(file)

read_state(enable, file) ==
    IF ~enable THEN None
    ELSE IF file.kind = "absent" THEN None
    ELSE from_yaml(file)

\* read_state ending in Err(e) where it logs and returns Ok(None)
read_state_result_strict(enable, file) ==
    IF enable /\ file.kind # "yaml" THEN Err("read_state", "fatal") ELSE OkResult

\* the Result read_state returns: Ok(_) on every path
read_state_result(enable, file) == OkResult

\* store_state reporting Err after the configmap was replaced
store_state_torn(enable, file, st, replaced) ==
    IF ~enable THEN file ELSE to_yaml(st)

\* store_state: the file as the call leaves it; `replaced` tells whether the
\* configmap was fetched and replaced, the only way the call returns Ok
store_state(enable, file, st, replaced) ==
    IF ~enable THEN file
    ELSE IF replaced THEN to_yaml(st)
    ELSE file

\* ---------------------------------------------------- bigquery_client.rs
\* insert_spot_price returning Ok without the row having been appended
insert_spot_price_noop(enable, rows, spot_price) == rows

\* insert_spot_price that returned Ok: a row more, unless the sink is disabled
insert_spot_price(enable, rows, spot_price) ==
    IF ~enable THEN rows ELSE Append(rows, spot_price)

\* ---------------------------------------------------- exporter_service.rs
\* line 101 with >= for >
write_spot_price_ge(st, spot_price) ==
    IF is_some(st) THEN spot_price.from >= unwrap(st).last_from ELSE TRUE

\* lines 100-104 with the comparison lost
write_spot_price_always(st, spot_price) == TRUE

write_spot_price(st, spot_price) ==
    IF is_some(st) THEN spot_price.from > unwrap(st).last_from ELSE TRUE

\* line 112 taking the end of the window
new_last_from_till(spot_price) == Some(spot_price.till)

\* line 112: `last_from = Some(spot_price.from)`
new_last_from(spot_price) == Some(spot_price.from)

\* line 118 with the test lost
store_needed_always(last) == TRUE

\* line 118: `if last_from.is_some()`
store_needed(last) == is_some(last)

\* line 96 with >= for >
is_future_ge(spot_price, t) == spot_price.till >= t

\* line 96: `spot_price.till > now`
is_future(spot_price, t) == spot_price.till > t

MaxAttempts == 1 + RetryDelays

Active(p) == pc[p] \notin {"idle", "done"}

Finish(p, r) ==
    /\ pc' = [pc EXCEPT ![p] = "done"]
    /\ result' = [result EXCEPT ![p] = r]

\* SpotPriceInfo: the quotations the pricing API may answer with
PriceInfos ==
    { [today |-> today, tomorrow |-> tomorrow] :
        today \in SeqsUpTo(Times, MaxLen), tomorrow \in SeqsUpTo(Times, MaxLen) }

AnyPriceInfo == { i \in PriceInfos : Len(i.today) + Len(i.tomorrow) <= MaxLen }

\* a response without a price
NoPriceInfo == [today |-> << >>, tomorrow |-> << >>]

\* no invocation yet; the pricing API is set to answer with one of `answers`
InitWith(answers) ==
    /\ bq_enable \in BOOLEAN
    /\ bq_init \in BOOLEAN
    /\ state_enable \in BOOLEAN
    /\ state_file \in {AbsentFile, UnparsableFile}
    /\ table = << >>
    /\ pc = [p \in Procs |-> "idle"]
    /\ result = [p \in Procs |-> Pending]
    /\ now = [p \in Procs |-> 0]
    /\ state = [p \in Procs |-> None]
    /\ spot_prices = [p \in Procs |-> << >>]
    /\ idx = [p \in Procs |-> 0]
    /\ attempt = [p \in Procs |-> 0]
    /\ last_result = [p \in Procs |-> OkResult]
    /\ future_spot_prices = [p \in Procs |-> << >>]
    /\ last_from = [p \in Procs |-> None]
    /\ inserted = [p \in Procs |-> << >>]
    /\ store_calls = [p \in Procs |-> 0]
    /\ fetch_attempts = [p \in Procs |-> 0]
    /\ file_at_start = [p \in Procs |-> AbsentFile]
    /\ overlapped = FALSE
    /\ price_info \in answers
    /\ waited = [p \in Procs |-> 0]
    /\ delay_bound = [p \in Procs |-> 0]

Init == InitWith({NoPriceInfo})

\* run, line 68: a new invocation captures now
StartRun(p, others, again) ==
    /\ pc[p] = "idle" \/ (again /\ pc[p] = "done")
    /\ Len(table) + MaxLen * (1 + Cardinality({q \in others : Active(q)})) <= MaxRows
    /\ \E t \in 1..MaxNow : now' = [now EXCEPT ![p] = t]
    /\ pc' = [pc EXCEPT ![p] = "init_table"]
    /\ result' = [result EXCEPT ![p] = Pending]
    /\ state' = [state EXCEPT ![p] = None]
    /\ spot_prices' = [spot_prices EXCEPT ![p] = << >>]
    /\ idx' = [idx EXCEPT ![p] = 0]
    /\ attempt' = [attempt EXCEPT ![p] = 0]
    /\ last_result' = [last_result EXCEPT ![p] = OkResult]
    /\ future_spot_prices' = [future_spot_prices EXCEPT ![p] = << >>]
    /\ last_from' = [last_from EXCEPT ![p] = None]
    /\ inserted' = [inserted EXCEPT ![p] = << >>]
    /\ store_calls' = [store_calls EXCEPT ![p] = 0]
    /\ fetch_attempts' = [fetch_attempts EXCEPT ![p] = 0]
    /\ file_at_start' = [file_at_start EXCEPT ![p] = state_file]
    /\ overlapped' = (overlapped \/ \E q \in others : Active(q))
    /\ waited' = [waited EXCEPT ![p] = 0]
    /\ UNCHANGED << config, price_info, delay_bound, state_file, table >>

Goto(p, label) == pc' = [pc EXCEPT ![p] = label]

\* `call.await?` with the error dropped (`let _ = call.await;`)
Try_ignore(p, r, next) == Goto(p, next) /\ UNCHANGED result

\* `call.await.map_err(..)?`: the error replaced by one of the caller's
Try_wrap(p, r, next) ==
    IF r.tag = "Ok" THEN Goto(p, next) /\ UNCHANGED result
    ELSE Finish(p, Err("run", "retries exhausted"))

\* `call.await?`: an Err returns from run with that error, an Ok goes on
Try(p, r, next) ==
    IF r.tag = "Ok" THEN Goto(p, next) /\ UNCHANGED result ELSE Finish(p, r)

\* the outcome of one awaited call as run sees it
Returned(p, r) == last_result' = [last_result EXCEPT ![p] = r]

\* take(3) yielding one delay more
retry_exhausted_late(attempts_made) == attempts_made > MaxAttempts

\* Retry::spawn replaced by a plain call
retry_exhausted_first(attempts_made) == attempts_made >= 1

\* take(3) read as three attempts of which the last is not made
retry_exhausted_second(attempts_made) == attempts_made >= 2

\* Retry::spawn after a failed attempt: the strategy yields a delay and the
\* action is tried again, or it is exhausted and the error is returned
retry_exhausted(attempts_made) == attempts_made >= MaxAttempts

\* tokio_retry ExponentialBackoff::from_millis(base), the n-th delay it yields
\* in ms: current * factor with factor 1, current starting at base and
\* multiplied by base after every delay
RECURSIVE exponential_backoff(_)
exponential_backoff(n) ==
    IF n <= 1 THEN BackoffBase ELSE exponential_backoff(n - 1) * BackoffBase

\* tokio_retry jitter: duration.mul_f64(r), r random in [0, 1)
jitter(duration, k) == (duration * k) \div JitterSteps

\* Retry::spawn after the failed attempt number `failed`, not the last: the
\* next delay of the strategy, shortened by jitter, is slept before the next
\* attempt; delay_bound is that delay before jitter
Sleep(p, failed) ==
    delay_bound' = [delay_bound EXCEPT ![p] = exponential_backoff(failed)]

\* no delay is pending after a success or the last failure
NoSleep(p) == delay_bound' = [delay_bound EXCEPT ![p] = 0]

\* init_table, line 225: nothing to do when the sink or the init is disabled
InitTableSkip(p) ==
    /\ pc[p] = "init_table"
    /\ ~bq_enable \/ ~bq_init
    /\ Goto(p, "read_state")
    /\ UNCHANGED << config, price_info, waited, delay_bound, state_file, table, result, now, state, spot_prices, idx,
                    attempt, last_result, future_spot_prices, last_from, inserted,
                    store_calls, fetch_attempts, history >>

\* init_table, lines 229-233: check_if_table_exists chooses create or update
InitTableCheck(p) ==
    /\ pc[p] = "init_table"
    /\ bq_enable /\ bq_init
    /\ \E exists \in BOOLEAN :
          Goto(p, IF exists THEN "update_table_schema" ELSE "create_table")
    /\ UNCHANGED << config, price_info, waited, delay_bound, state_file, table, result, now, state, spot_prices, idx,
                    attempt, last_result, future_spot_prices, last_from, inserted,
                    store_calls, fetch_attempts, history >>

\* create_table(true), lines 108-134: the dataset lookup or the creation fails,
\* or the table is created and the wait for it begins
CreateTable(p, kinds) ==
    /\ pc[p] = "create_table"
    /\ \E r \in {OkResult} \cup {Err("init_table", kind) : kind \in kinds \cap ErrorKinds} :
          /\ Returned(p, r)
          /\ Try(p, r, "wait_ready")
    /\ UNCHANGED << config, price_info, waited, delay_bound, state_file, table, now, state, spot_prices, idx, attempt,
                    future_spot_prices, last_from, inserted, store_calls, fetch_attempts,
                    history >>

\* create_table(true), lines 136-144: poll check_if_table_exists, which answers
\* false for a table not there and for any error, and sleep a second before
\* the next poll
WaitReady(p) ==
    /\ pc[p] = "wait_ready"
    /\ \E exists \in BOOLEAN :
          IF exists
          THEN Goto(p, "read_state") /\ waited' = [waited EXCEPT ![p] = 0]
          ELSE UNCHANGED pc /\ waited' = [waited EXCEPT ![p] = (waited[p] + 1) % 2]
    /\ UNCHANGED << config, price_info, delay_bound, state_file, table, result, now, state,
                    spot_prices, idx, attempt, last_result, future_spot_prices, last_from,
                    inserted, store_calls, fetch_attempts, history >>

\* update_table_schema, lines 160-190
UpdateTableSchema(p, kinds) ==
    /\ pc[p] = "update_table_schema"
    /\ \E r \in {OkResult} \cup {Err("init_table", kind) : kind \in kinds \cap ErrorKinds} :
          /\ Returned(p, r)
          /\ Try(p, r, "read_state")
    /\ UNCHANGED << config, price_info, waited, delay_bound, state_file, table, now, state, spot_prices, idx, attempt,
                    future_spot_prices, last_from, inserted, store_calls, fetch_attempts,
                    history >>

\* run, line 74: `read_state()?`
ReadState(p) ==
    /\ pc[p] = "read_state"
    /\ state' = [state EXCEPT ![p] = read_state(state_enable, state_file)]
    /\ attempt' = [attempt EXCEPT ![p] = 0]
    /\ Try(p, read_state_result(state_enable, state_file), "get_spot_prices")
    /\ UNCHANGED << config, price_info, waited, delay_bound, state_file, table, now, spot_prices, idx,
                    last_result, future_spot_prices, last_from, inserted,
                    store_calls, fetch_attempts, history >>

\* the answers that map to the records an earlier run fetched
SamePriceInfo(fetched) ==
    { i \in AnyPriceInfo : get_spot_prices(i.today, i.tomorrow) = fetched }

\* consecutive hours: each record starts an hour after the one before it
Hourly(records) ==
    \A i \in 1..(Len(records) - 1) : records[i + 1].from = records[i].from + Hour

\* the range `later` begins and ends no earlier than the range `earlier`
NotBackwards(earlier, later) ==
    \/ earlier = << >>
    \/ later = << >>
    \/ /\ later[1].from >= earlier[1].from
       /\ later[Len(later)].from >= earlier[Len(earlier)].from

\* the answers that map to consecutive hours
HourlyPriceInfo ==
    { i \in AnyPriceInfo : Hourly(get_spot_prices(i.today, i.tomorrow)) }

\* those of them that do not move backwards from what an earlier run fetched
LaterPriceInfo(fetched) ==
    { i \in HourlyPriceInfo : NotBackwards(fetched, get_spot_prices(i.today, i.tomorrow)) }

\* run, lines 77-81: one attempt of get_spot_prices under Retry::spawn
GetSpotPrices(p, kinds, offered) ==
    /\ pc[p] = "get_spot_prices"
    /\ attempt' = [attempt EXCEPT ![p] = attempt[p] + 1]
    /\ fetch_attempts' = [fetch_attempts EXCEPT ![p] = attempt[p] + 1]
    /\ \/ \E answer \in offered :
             /\ Returned(p, OkResult)
             /\ spot_prices' = [spot_prices EXCEPT ![p] =
                                   get_spot_prices(answer.today, answer.tomorrow)]
             /\ Try(p, OkResult, "loop")
             /\ NoSleep(p)
       \/ \E kind \in kinds \cap ErrorKinds :
             /\ Returned(p, Err("get_spot_prices", kind))
             /\ IF retry_exhausted(attempt[p] + 1)
                THEN Try(p, Err("get_spot_prices", kind), "loop") /\ NoSleep(p)
                ELSE UNCHANGED << pc, result >> /\ Sleep(p, attempt[p] + 1)
             /\ UNCHANGED spot_prices
       \/ \* homes[0] of a response without homes
          /\ kinds \cap ErrorKinds # {}
          /\ Returned(p, Panicked)
          /\ Finish(p, Panicked)
          /\ NoSleep(p)
          /\ UNCHANGED spot_prices
    /\ UNCHANGED << config, price_info, waited, state_file, table, now, state, idx, future_spot_prices,
                    last_from, inserted, store_calls,
                    history >>

\* the loop of line 88 going through the list from its end
current_spot_price_reversed(p) ==
    LET fetched == spot_prices[p][Len(spot_prices[p]) - idx[p]]
    IN SpotPrice(Some("uuid"), Some("SOURCE"), fetched.from, fetched.till)

\* the record the loop body builds at lines 89-93
current_spot_price(p) ==
    LET fetched == spot_prices[p][idx[p] + 1]
    IN SpotPrice(Some("uuid"), Some("SOURCE"), fetched.from, fetched.till)

\* run, lines 88-106 and 113-115: classify the next record, skip it or go on
\* to insert it
LoopNext(p) ==
    /\ pc[p] = "loop"
    /\ idx[p] < Len(spot_prices[p])
    /\ LET spot_price == current_spot_price(p)
       IN /\ future_spot_prices' =
                [future_spot_prices EXCEPT ![p] =
                    IF is_future(spot_price, now[p]) THEN Append(@, spot_price) ELSE @]
          /\ IF write_spot_price(state[p], spot_price)
             THEN /\ Goto(p, "insert_spot_price")
                  /\ attempt' = [attempt EXCEPT ![p] = 0]
                  /\ UNCHANGED idx
             ELSE /\ idx' = [idx EXCEPT ![p] = idx[p] + 1]
                  /\ UNCHANGED << pc, attempt >>
    /\ UNCHANGED << config, price_info, waited, delay_bound, state_file, table, result, now, state, spot_prices,
                    last_result, last_from, inserted, store_calls, fetch_attempts,
                    history >>

\* run, lines 107-112: one attempt of insert_spot_price under Retry::spawn
InsertSpotPrice(p, kinds) ==
    /\ pc[p] = "insert_spot_price"
    /\ attempt' = [attempt EXCEPT ![p] = attempt[p] + 1]
    /\ LET spot_price == current_spot_price(p)
       IN \/ /\ Returned(p, OkResult)
             /\ table' = insert_spot_price(bq_enable, table, spot_price)
             /\ inserted' = [inserted EXCEPT ![p] = Append(@, spot_price.from)]
             /\ last_from' = [last_from EXCEPT ![p] = new_last_from(spot_price)]
             /\ idx' = [idx EXCEPT ![p] = idx[p] + 1]
             /\ Try(p, OkResult, "loop")
             /\ NoSleep(p)
          \/ \E kind \in kinds \cap ErrorKinds :
                /\ bq_enable
                /\ Returned(p, Err("insert_spot_price", kind))
                /\ IF retry_exhausted(attempt[p] + 1)
                   THEN Try(p, Err("insert_spot_price", kind), "loop") /\ NoSleep(p)
                   ELSE UNCHANGED << pc, result >> /\ Sleep(p, attempt[p] + 1)
                /\ UNCHANGED << table, inserted, last_from, idx >>
    /\ UNCHANGED << config, price_info, waited, state_file, now, state, spot_prices, future_spot_prices,
                    store_calls, fetch_attempts,
                    history >>

\* run, lines 118 and 128: after the loop, store the state or return Ok
AfterLoop(p) ==
    /\ pc[p] = "loop"
    /\ idx[p] = Len(spot_prices[p])
    /\ IF store_needed(last_from[p])
       THEN Goto(p, "store_state") /\ UNCHANGED result
       ELSE Finish(p, OkResult)
    /\ UNCHANGED << config, price_info, waited, delay_bound, state_file, table, now, state, spot_prices, idx, attempt,
                    last_result, future_spot_prices, last_from, inserted, store_calls,
                    fetch_attempts, history >>

\* run, lines 120-128, and store_state
StoreState(p, kinds) ==
    /\ pc[p] = "store_state"
    /\ store_calls' = [store_calls EXCEPT ![p] = store_calls[p] + 1]
    /\ LET new_state == State(future_spot_prices[p], unwrap(last_from[p]))
       IN \/ /\ Returned(p, OkResult)
             /\ state_file' = store_state(state_enable, state_file, new_state, TRUE)
             /\ Finish(p, OkResult)
          \/ /\ state_enable
             /\ "storage" \in kinds
             /\ Returned(p, Err("store_state", "storage"))
             /\ state_file' = store_state(state_enable, state_file, new_state, FALSE)
             /\ Try(p, Err("store_state", "storage"), "done")
    /\ UNCHANGED << config, price_info, waited, delay_bound, table, now, state, spot_prices, idx, attempt,
                    future_spot_prices, last_from, inserted, fetch_attempts,
                    history >>

Step(p, others, again, kinds, offered) ==
    \/ StartRun(p, others, again)
    \/ InitTableSkip(p)
    \/ InitTableCheck(p)
    \/ CreateTable(p, kinds)
    \/ WaitReady(p)
    \/ UpdateTableSchema(p, kinds)
    \/ ReadState(p)
    \/ GetSpotPrices(p, kinds, offered)
    \/ LoopNext(p)
    \/ InsertSpotPrice(p, kinds)
    \/ AfterLoop(p)
    \/ StoreState(p, kinds)

\* the scheduler starts one invocation at a time
Next == Step(1, {}, TRUE, Faults, AnyPriceInfo)

Spec == Init /\ [][Next]_vars

\* two invocations against the same state store and table, in any
\* interleaving, every external call of which succeeds
NextOverlap == \E p \in Procs : Step(p, Procs \ {p}, FALSE, {}, AnyPriceInfo)

SpecOverlap == Init /\ [][NextOverlap]_vars

\* two invocations one after the other, in which only the state write may
\* fail and the pricing API answers the second as it answered the first:
\* frame 2 starts when frame 1 returned
NextPair ==
    \/ Step(1, {}, FALSE, {"storage"}, AnyPriceInfo)
    \/ /\ pc[1] = "done"
       /\ Step(2, {}, FALSE, {"storage"}, SamePriceInfo(spot_prices[1]))

SpecPair == Init /\ [][NextPair]_vars

\* one invocation, every fetch attempt of which that succeeds is answered
\* with price_info
NextFetch == Step(1, {}, FALSE, Faults, {price_info})

SpecFetch == InitWith(AnyPriceInfo) /\ [][NextFetch]_vars

\* two invocations one after the other, any call of which may fail (with an
\* error of one kind, run not telling the kinds apart), that the pricing API
\* answers with consecutive hours, the second with a range that does not move
\* backwards from the first
NextHourly ==
    \/ Step(1, {}, FALSE, {"transient", "storage"}, HourlyPriceInfo)
    \/ /\ pc[1] = "done"
       /\ Step(2, {}, FALSE, {"transient", "storage"}, LaterPriceInfo(spot_prices[1]))

SpecHourly == Init /\ [][NextHourly]_vars

\* one invocation that is never left waiting: whenever it can take a step it
\* takes one, every call it awaits being answered
NextLive == Step(1, {}, FALSE, Faults, AnyPriceInfo)

SpecLive == Init /\ [][NextLive]_vars /\ WF_vars(NextLive)

\* ================================================================ claims
Froms(records) == [i \in 1..Len(records) |-> records[i].from]

\* the window starts among `records` that are new against the state `st`
NewFroms(st, records) ==
    Froms(SelectSeq(records, LAMBDA r : st = None \/ r.from > st[1].last_from))

\* the last n rows of the table
LastRows(n) == SubSeq(table, Len(table) - n + 1, Len(table))

Cursor(file) == file.state[1].last_from

NonDecreasing(records) ==
    \A i, j \in 1..Len(records) : i < j => records[i].from <= records[j].from

StrictlyIncreasing(records) ==
    \A i, j \in 1..Len(records) : i < j => records[i].from < records[j].from

Returned_Ok(p) == pc[p] = "done" /\ result[p].tag = "Ok"

\* C1: a run that returns Ok has inserted, in fetch order, exactly the
\* fetched records for which the state it read is absent or whose from is
\* strictly greater than that state's last_from; with the sink enabled these
\* are the rows the run appended to the table.
C1_DedupCorrectness ==
    \A p \in Procs :
        Returned_Ok(p) =>
            /\ inserted[p] = NewFroms(state[p], spot_prices[p])
            /\ bq_enable => Froms(LastRows(Len(inserted[p]))) = inserted[p]

\* a run that read a cursor, skipped a record and inserted another
C1_Witness ==
    \E p \in Procs :
        /\ Returned_Ok(p)
        /\ state[p] # None
        /\ inserted[p] # << >>
        /\ Len(inserted[p]) < Len(spot_prices[p])
        /\ bq_enable

\* the second of two runs follows a run that returned Ok after its state write
\* returned Ok, and fetched the same list, in non-decreasing order
C2_SecondOfSame ==
    /\ Returned_Ok(1)
    /\ store_calls[1] = 1
    /\ NonDecreasing(spot_prices[1])
    /\ spot_prices[2] = spot_prices[1]

\* C2 as stated: after a run whose state write returned Ok, a run that fetches
\* the same list inserts nothing and writes no state (read with the sink
\* enabled, so that an insert is a row in the table).
C2_Idempotence_Original ==
    (C2_SecondOfSame /\ bq_enable) =>
        /\ inserted[2] = << >>
        /\ Froms(table) = inserted[1]
        /\ store_calls[2] = 0

\* C2 amended: the same, with the state store enabled (STATE_ENABLE=true); the
\* table and the state file stay as run 1 left them.
C2_Idempotence ==
    (C2_SecondOfSame /\ state_enable) =>
        /\ inserted[2] = << >>
        /\ store_calls[2] = 0
        /\ pc[2] # "insert_spot_price"
        /\ bq_enable => Froms(table) = inserted[1]
        /\ Cursor(state_file) = inserted[1][Len(inserted[1])]

\* run 2 returned Ok having skipped every record run 1 had inserted
C2_Witness ==
    /\ C2_SecondOfSame
    /\ state_enable
    /\ Returned_Ok(2)
    /\ Len(inserted[1]) = MaxLen
    /\ idx[2] = Len(spot_prices[2])

\* C3: a run that returns Ok leaves a cursor that is at least the cursor the
\* file held when the run started; a run that inserted nothing leaves the file
\* as it found it; and while the enabled sink holds no row no state is stored.
C3_CursorMonotonic ==
    \A p \in Procs :
        /\ (Returned_Ok(p) /\ file_at_start[p].kind = "yaml") =>
              /\ state_file.kind = "yaml"
              /\ Cursor(state_file) >= Cursor(file_at_start[p])
        /\ (Active(p) \/ pc[p] = "done") /\ inserted[p] = << >> =>
              state_file = file_at_start[p]
        /\ (bq_enable /\ table = << >>) => state_file.kind # "yaml"

\* a run that started from a stored cursor and advanced it
C3_Witness ==
    \E p \in Procs :
        /\ Returned_Ok(p)
        /\ file_at_start[p].kind = "yaml"
        /\ Cursor(state_file) > Cursor(file_at_start[p])

NoDuplicateRows ==
    \A i, j \in 1..Len(table) : i < j => table[i].from # table[j].from

\* the state store is enabled and every fetched list has distinct, increasing
\* window starts
C4_Setting ==
    /\ state_enable
    /\ \A p \in Procs : StrictlyIncreasing(spot_prices[p])

\* C4 as stated: whatever the interleaving of two runs whose external calls
\* all succeed, no window start is in the table twice.
C4_NoDuplicates_Original == C4_Setting => NoDuplicateRows

\* C4 amended: the same for runs that do not overlap, each starting after the
\* one before it returned.
C4_NoDuplicates == (C4_Setting /\ ~overlapped) => NoDuplicateRows

\* two runs, one after the other, each of which inserted a row
C4_Witness ==
    /\ C4_Setting
    /\ ~overlapped
    /\ bq_enable
    /\ \A p \in Procs : Returned_Ok(p) /\ inserted[p] # << >>

\* a get_spot_prices or insert_spot_price attempt is the last call that returned
Retried(p) == last_result[p].op \in {"get_spot_prices", "insert_spot_price"}

\* C5 as stated: a retried operation is attempted at most 3 times.
C5_AttemptBound_Original ==
    \A p \in Procs : attempt[p] <= 3 /\ fetch_attempts[p] <= 3

\* C5 amended: a retried operation is attempted at most 4 times, the first
\* attempt and three retries; no attempt follows the fourth failure.
C5_AttemptBound ==
    \A p \in Procs :
        /\ attempt[p] <= 4
        /\ fetch_attempts[p] <= 4
        /\ (attempt[p] = 4 /\ last_result[p].tag = "Err") => pc[p] = "done"

\* an insert that failed four times
C5_Witness ==
    \E p \in Procs :
        /\ attempt[p] = 4
        /\ pc[p] = "done"
        /\ result[p] = Err("insert_spot_price", "transient")

FetchedOnThird(p) ==
    /\ fetch_attempts[p] = 3
    /\ pc[p] # "get_spot_prices"
    /\ result[p].op # "get_spot_prices"

\* C7: a fetch that failed twice is tried a third time; when the third attempt
\* succeeds the run goes on with the records of that attempt, and it returns
\* Ok unless an insert or the state write fails.
C7_FetchRecovery ==
    \A p \in Procs :
        /\ (pc[p] = "done" /\ result[p].tag = "Err" /\ result[p].op = "get_spot_prices") =>
              fetch_attempts[p] > 2
        /\ FetchedOnThird(p) =>
              /\ pc[p] \in {"loop", "insert_spot_price", "store_state", "done"}
              /\ idx[p] <= Len(spot_prices[p])
              /\ pc[p] = "done" =>
                    \/ /\ result[p].tag = "Ok"
                       /\ inserted[p] = NewFroms(state[p], spot_prices[p])
                    \/ result[p].op \in {"insert_spot_price", "store_state"}

\* a run that fetched on the third attempt, inserted records and returned Ok
C7_Witness ==
    \E p \in Procs :
        /\ FetchedOnThird(p)
        /\ Returned_Ok(p)
        /\ Len(inserted[p]) = MaxLen
        /\ store_calls[p] = 1

\* C8: when the last attempt the retry policy allows for the fetch has failed,
\* run has returned that error, has inserted nothing and called no state
\* write, and the state file is what it was when the run started.
C8_FetchExhaustion ==
    \A p \in Procs :
        (last_result[p].tag = "Err" /\ last_result[p].op = "get_spot_prices"
            /\ fetch_attempts[p] >= MaxAttempts) =>
            /\ pc[p] = "done"
            /\ result[p] = last_result[p]
            /\ inserted[p] = << >>
            /\ store_calls[p] = 0
            /\ state_file = file_at_start[p]
            /\ spot_prices[p] = << >>

\* a run that gave up fetching while a cursor and rows from an earlier run exist
C8_Witness ==
    \E p \in Procs :
        /\ pc[p] = "done"
        /\ result[p] = Err("get_spot_prices", "transient")
        /\ fetch_attempts[p] = MaxAttempts
        /\ state_file.kind = "yaml"
        /\ table # << >>

\* the insert of run p failed on the last attempt the retry policy allows
InsertGaveUp(p) ==
    /\ last_result[p].tag = "Err"
    /\ last_result[p].op = "insert_spot_price"
    /\ attempt[p] >= MaxAttempts

\* C9: when the insert of a new record has failed on its last attempt, run
\* has returned that error; the records inserted are the new ones among those
\* before the failed record and no later one, they are in the table, and no
\* state write was called: the state file is what it was at the start.
C9_SinkFailure ==
    \A p \in Procs :
        InsertGaveUp(p) =>
            /\ pc[p] = "done"
            /\ result[p] = last_result[p]
            /\ idx[p] < Len(spot_prices[p])
            /\ LET failed == spot_prices[p][idx[p] + 1]
               IN state[p] = None \/ failed.from > state[p][1].last_from
            /\ inserted[p] = NewFroms(state[p], SubSeq(spot_prices[p], 1, idx[p]))
            /\ Froms(LastRows(Len(inserted[p]))) = inserted[p]
            /\ store_calls[p] = 0
            /\ state_file = file_at_start[p]

\* the insert of the second record failed after the first was inserted
C9_Witness ==
    \E p \in Procs :
        /\ InsertGaveUp(p)
        /\ inserted[p] # << >>
        /\ table # << >>
        /\ state[p] # None

\* the state write of run p failed
StoreFailed(p) == last_result[p].tag = "Err" /\ last_result[p].op = "store_state"

\* C10: when store_state fails, run returns that error although every new
\* record was inserted; the rows are in the table and the state file is
\* unchanged; a following run that fetches the same list and gets through its
\* loop inserts the same records again.
C10_StateWriteFailure ==
    StoreFailed(1) =>
        /\ pc[1] = "done"
        /\ result[1] = last_result[1]
        /\ inserted[1] = NewFroms(state[1], spot_prices[1])
        /\ inserted[1] # << >>
        /\ bq_enable => SubSeq(Froms(table), 1, Len(inserted[1])) = inserted[1]
        /\ pc[2] = "idle" => state_file = file_at_start[1]
        /\ pc[2] # "idle" => file_at_start[2] = file_at_start[1]
        /\ (pc[2] \in {"store_state", "done"} /\ spot_prices[2] = spot_prices[1]
              /\ result[2].op \notin {"init_table", "get_spot_prices", "insert_spot_price"}) =>
              /\ inserted[2] = inserted[1]
              /\ bq_enable => Froms(table) = inserted[1] \o inserted[1]

\* run 2 returned Ok after inserting again what run 1 had inserted
C10_Witness ==
    /\ StoreFailed(1)
    /\ Returned_Ok(2)
    /\ spot_prices[2] = spot_prices[1]
    /\ bq_enable
    /\ Len(table) = 2 * MaxLen


\* run p is past its state read
PastReadState(p) ==
    pc[p] \in {"get_spot_prices", "loop", "insert_spot_price", "store_state", "done"}

\* C11: a run that finds the state file absent, unreadable or unparsable goes
\* past read_state with no previous state and no error from it; the records
\* it inserts are the fetched records, all of them once its loop is through.
C11_StateReadNeverFails ==
    \A p \in Procs :
        /\ (pc[p] = "done" /\ file_at_start[p].kind \in {"absent", "unparsable"}) =>
              /\ result[p].op # "read_state"
              /\ result[p].op \notin {"init_table", "get_spot_prices"} =>
                    fetch_attempts[p] >= 1
        /\ (PastReadState(p) /\ file_at_start[p].kind \in {"absent", "unparsable"}) =>
              /\ result[p].op # "init_table" => state[p] = None
              /\ inserted[p] = Froms(SubSeq(spot_prices[p], 1, Len(inserted[p])))
              /\ (pc[p] = "store_state" \/ Returned_Ok(p)) =>
                    inserted[p] = Froms(spot_prices[p])

\* with the state store enabled, a run that found unparsable text returned Ok
\* having inserted the whole fetched list
C11_Witness ==
    \E p \in Procs :
        /\ state_enable
        /\ file_at_start[p].kind = "unparsable"
        /\ Returned_Ok(p)
        /\ Len(inserted[p]) = MaxLen


\* run p got through its loop: it returned Ok or its state write failed
LoopFinished(p) ==
    pc[p] = "done" /\ (result[p].tag = "Ok" \/ result[p].op = "store_state")

\* run p fetched a list
Fetched(p) ==
    /\ pc[p] \in {"loop", "insert_spot_price", "store_state", "done"}
    /\ result[p].op \notin {"init_table", "read_state", "get_spot_prices"}

\* C12: store_state is called only after the loop went through the whole list
\* and inserted a record, and it is called whenever that happened; a run that
\* fetched nothing, or only records whose from is not after the cursor it
\* read, returns Ok with no insert, no state write and the state file as it
\* found it.
C12_StateWrittenOnProgress ==
    \A p \in Procs :
        /\ (pc[p] = "store_state" \/ store_calls[p] >= 1) =>
              /\ idx[p] = Len(spot_prices[p])
              /\ inserted[p] # << >>
        /\ (LoopFinished(p) /\ inserted[p] # << >>) => store_calls[p] = 1
        /\ (pc[p] = "done" /\ Fetched(p) /\ NewFroms(state[p], spot_prices[p]) = << >>) =>
              /\ result[p].tag = "Ok"
              /\ inserted[p] = << >>
              /\ store_calls[p] = 0
              /\ state_file = file_at_start[p]

\* a run that fetched records, none of them after the cursor it read
C12_Witness ==
    \E p \in Procs :
        /\ Returned_Ok(p)
        /\ state[p] # None
        /\ spot_prices[p] # << >>
        /\ inserted[p] = << >>
        /\ store_calls[p] = 0
        /\ table # << >>


\* the window starts of the `records` that end after t
FutureFroms(records, t) == Froms(SelectSeq(records, LAMBDA r : r.till > t))

\* the future_spot_prices of the state in the file, none without a state
StoredFuture(file) ==
    IF file.kind = "yaml" THEN file.state[1].future_spot_prices ELSE << >>

\* C13 as stated: after every run that returns Ok with the state store
\* enabled, a fetched record is in future_spot_prices of the stored state iff
\* its till is after the now of that run.
C13_FutureClassification_Original ==
    \A p \in Procs :
        (Returned_Ok(p) /\ state_enable) =>
            \A i \in 1..Len(spot_prices[p]) :
                (\E j \in 1..Len(StoredFuture(state_file)) :
                    StoredFuture(state_file)[j].from = spot_prices[p][i].from)
                <=> spot_prices[p][i].till > now[p]

\* C13 amended: the list a run has built when its loop is through holds, in
\* fetch order, exactly the fetched records whose till is after the now of the
\* run, skipped and inserted alike; it is the future_spot_prices of the stored
\* state after a run whose state write was made and returned Ok with the
\* state store enabled.
C13_FutureClassification ==
    \A p \in Procs :
        /\ (pc[p] = "store_state" \/ LoopFinished(p)) =>
              Froms(future_spot_prices[p]) = FutureFroms(spot_prices[p], now[p])
        /\ (Returned_Ok(p) /\ store_calls[p] = 1 /\ state_enable) =>
              /\ state_file.kind = "yaml"
              /\ Froms(StoredFuture(state_file)) = FutureFroms(spot_prices[p], now[p])
              /\ \A j \in 1..Len(StoredFuture(state_file)) :
                    StoredFuture(state_file)[j].till > now[p]

\* a run stored a state that lists a record it skipped and leaves out a record
\* of an earlier hour
C13_Witness ==
    \E p \in Procs :
        /\ Returned_Ok(p)
        /\ store_calls[p] = 1
        /\ state_enable
        /\ state[p] # None
        /\ Len(inserted[p]) < Len(StoredFuture(state_file))


\* C14: the list a fetch returns has |today| + |tomorrow| records: the prices
\* of today in the order of the response, then those of tomorrow in theirs,
\* each with till one hour after from and with neither id nor source.
C14_FetchedList ==
    Fetched(1) =>
        LET fetched == spot_prices[1]
            today == price_info.today
            tomorrow == price_info.tomorrow
        IN /\ Len(fetched) = Len(today) + Len(tomorrow)
           /\ \A i \in 1..Len(today) : fetched[i].from = today[i]
           /\ \A j \in 1..Len(tomorrow) : fetched[Len(today) + j].from = tomorrow[j]
           /\ \A i \in 1..Len(fetched) :
                 /\ fetched[i].till = fetched[i].from + 1
                 /\ fetched[i].id = None
                 /\ fetched[i].source = None

\* a response whose price of today starts after its price of tomorrow was
\* fetched
C14_Witness ==
    /\ Fetched(1)
    /\ Len(price_info.today) = 1
    /\ Len(price_info.tomorrow) = 1
    /\ price_info.today[1] > price_info.tomorrow[1]
    /\ Len(spot_prices[1]) = 2


\* the cursor in the file is the from of the record run p inserted last, and
\* no record run p inserted has a later from
CursorIsLastAndGreatest(p) ==
    /\ state_file.kind = "yaml"
    /\ Cursor(state_file) = inserted[p][Len(inserted[p])]
    /\ \A i \in 1..Len(inserted[p]) : inserted[p][i] <= Cursor(state_file)

\* C15 as stated: after a run that returned Ok and inserted a record, the
\* stored cursor is the from of the record inserted last, the greatest from
\* among the records the run inserted (read with the state store enabled, so
\* that a cursor is stored).
C15_CursorValue_Original ==
    \A p \in Procs :
        (Returned_Ok(p) /\ inserted[p] # << >> /\ state_enable) =>
            CursorIsLastAndGreatest(p)

\* C15 amended: with the state store enabled, after a run that returned Ok
\* and inserted a record the stored cursor is the from of the record inserted
\* last; when the fetched list was in non-decreasing order of from, that is
\* the greatest from among the records the run inserted.
C15_CursorValue ==
    \A p \in Procs :
        (Returned_Ok(p) /\ inserted[p] # << >> /\ state_enable) =>
            /\ state_file.kind = "yaml"
            /\ Cursor(state_file) = inserted[p][Len(inserted[p])]
            /\ NonDecreasing(spot_prices[p]) => CursorIsLastAndGreatest(p)

\* a run that inserted two records of increasing from and stored the cursor
C15_Witness ==
    \E p \in Procs :
        /\ Returned_Ok(p)
        /\ state_enable
        /\ Len(inserted[p]) = 2
        /\ inserted[p][1] < inserted[p][2]
        /\ Cursor(state_file) = inserted[p][2]


\* where a run is before its fetch has succeeded
BeforeFetched ==
    {"init_table", "create_table", "wait_ready", "update_table_schema", "read_state",
     "get_spot_prices"}

\* the order of a run as its state shows it
C16_Order ==
    \A p \in Procs :
        /\ pc[p] \in BeforeFetched =>
              /\ spot_prices[p] = << >>
              /\ inserted[p] = << >>
              /\ store_calls[p] = 0
        /\ inserted[p] # << >> => Fetched(p) /\ last_result[p].op # "get_spot_prices"
        /\ Fetched(p) =>
              /\ idx[p] <= Len(spot_prices[p])
              /\ inserted[p] = NewFroms(state[p], SubSeq(spot_prices[p], 1, idx[p]))
        /\ pc[p] = "insert_spot_price" => idx[p] < Len(spot_prices[p])
        /\ store_calls[p] <= 1
        /\ (pc[p] = "store_state" \/ store_calls[p] = 1) =>
              /\ idx[p] = Len(spot_prices[p])
              /\ inserted[p] = NewFroms(state[p], spot_prices[p])
        /\ store_calls[p] = 1 => pc[p] = "done"

\* the order of a run as its steps show it
C16_Steps ==
    \A p \in Procs :
        /\ (pc[p] \in {"loop", "insert_spot_price", "store_state"}) =>
              /\ pc'[p] # "get_spot_prices"
              /\ spot_prices'[p] = spot_prices[p]
              /\ fetch_attempts'[p] = fetch_attempts[p]
        /\ pc'[p] # "init_table" =>
              /\ Len(inserted'[p]) <= Len(inserted[p]) + 1
              /\ SubSeq(inserted'[p], 1, Len(inserted[p])) = inserted[p]
              /\ inserted'[p] # inserted[p] => pc[p] = "insert_spot_price"
        /\ store_calls'[p] > store_calls[p] =>
              pc[p] = "store_state" /\ pc'[p] = "done" /\ inserted'[p] = inserted[p]
        /\ Len(table') <= Len(table) + 1

\* C16: within a run, one fetch succeeds and it precedes every insert; the
\* new records are inserted one at a time in the order of the fetched list,
\* an insert beginning only when every new record before it was inserted;
\* the state is written at most once, after the last insert, and the run
\* then returns.
C16_StrictSequencing == []C16_Order /\ [][C16_Steps]_vars

\* a run whose fetch succeeded at the second attempt inserted two records and
\* wrote the state
C16_Witness ==
    \E p \in Procs :
        /\ Returned_Ok(p)
        /\ fetch_attempts[p] = 2
        /\ Len(inserted[p]) = 2
        /\ inserted[p][1] # inserted[p][2]
        /\ store_calls[p] = 1


\* init_table of run p returned an error
InitTableFailed(p) == last_result[p].tag = "Err" /\ last_result[p].op = "init_table"

\* run p has read no state, made no fetch attempt, inserted nothing and called
\* no state write
NothingDone(p) ==
    /\ state[p] = None
    /\ fetch_attempts[p] = 0
    /\ spot_prices[p] = << >>
    /\ inserted[p] = << >>
    /\ store_calls[p] = 0
    /\ state_file = file_at_start[p]

\* C17: while init_table is under way the run has read no state and made no
\* fetch attempt; when init_table fails the run has returned that error, with
\* no fetch attempt, no insert and no state write.
C17_SchemaStepGates ==
    \A p \in Procs :
        /\ pc[p] \in {"init_table", "create_table", "wait_ready", "update_table_schema"} =>
              NothingDone(p)
        /\ InitTableFailed(p) =>
              /\ pc[p] = "done"
              /\ result[p] = last_result[p]
              /\ NothingDone(p)
        /\ fetch_attempts[p] >= 1 => ~InitTableFailed(p)

\* init_table failed in a run that found a stored state and rows of an
\* earlier run
C17_Witness ==
    \E p \in Procs :
        /\ pc[p] = "done"
        /\ result[p] = Err("init_table", "fatal")
        /\ state_enable
        /\ file_at_start[p].kind = "yaml"
        /\ table # << >>


\* C18 as stated: a run that has started returns, every call it awaits being
\* answered.
C18_RunTermination == (pc[1] = "init_table") ~> (pc[1] = "done")


\* once past init_table a run returns
TerminatesAfterInit == (pc[1] = "read_state") ~> (pc[1] = "done")


\* C19: when the last attempt of a fetch or an insert has failed, run has
\* returned the error of that attempt as the call made it; an error run
\* returns is the error of the last call it awaited, and a run that returns
\* Ok had its last call return Ok.
C19_ErrorSurfaced ==
    \A p \in Procs :
        /\ (Retried(p) /\ last_result[p].tag = "Err" /\ attempt[p] >= MaxAttempts) =>
              /\ pc[p] = "done"
              /\ result[p].tag = "Err"
              /\ result[p].op = last_result[p].op
              /\ result[p].kind = last_result[p].kind
              /\ result[p].kind \in ErrorKinds
        /\ (pc[p] = "done" /\ result[p].tag = "Err") => result[p] = last_result[p]
        /\ Returned_Ok(p) => last_result[p].tag = "Ok"

\* a fetch gave up with a fatal error, which run returned
C19_Witness ==
    \E p \in Procs :
        /\ pc[p] = "done"
        /\ fetch_attempts[p] = MaxAttempts
        /\ last_result[p] = Err("get_spot_prices", "fatal")
        /\ result[p] = Err("get_spot_prices", "fatal")


\* run p sleeps before another attempt of a fetch or an insert
Backing_Off(p) ==
    /\ pc[p] \in {"get_spot_prices", "insert_spot_price"}
    /\ attempt[p] >= 1
    /\ last_result[p].tag = "Err"

\* C20 as stated: the delay before the first retry is at most 100 ms and the
\* bound doubles with every further retry (100, 200, 400 ms); jitter leaves a
\* delay within its bound.
C20_BackoffSchedule ==
    \A p \in Procs :
        Backing_Off(p) =>
            /\ delay_bound[p] = 100 * 2 ^ (attempt[p] - 1)
            /\ \A k \in 0..(JitterSteps - 1) : jitter(delay_bound[p], k) <= delay_bound[p]


\* the table has a row whose from is t
HasRow(t) == \E i \in 1..Len(table) : table[i].from = t

\* C21 as stated: whatever BQ_ENABLE and STATE_ENABLE are, when a cursor is
\* stored the table has a row whose from is that cursor.
C21_CursorNotAhead_Original ==
    state_file.kind = "yaml" => HasRow(Cursor(state_file))

\* C21 amended: the same with the sink enabled (BQ_ENABLE=true).
C21_CursorNotAhead ==
    (bq_enable /\ state_file.kind = "yaml") => HasRow(Cursor(state_file))

\* a cursor is stored and a later run added a row after the row of the
\* cursor without moving the cursor
C21_Witness ==
    /\ bq_enable
    /\ state_file.kind = "yaml"
    /\ HasRow(Cursor(state_file))
    /\ table[Len(table)].from # Cursor(state_file)


\* the records run p has skipped as not new
Skipped(p) ==
    { spot_prices[p][i].from : i \in { j \in 1..idx[p] :
        state[p] # None /\ spot_prices[p][j].from <= state[p][1].last_from } }

\* C22 as stated: in sequential runs that fetch consecutive hours in ranges
\* that do not move backwards, every record a run has skipped as not new has
\* a row with its from in the table.
C22_NoRecordLost_Original ==
    \A p \in Procs : \A t \in Skipped(p) : HasRow(t)

\* C22 amended: the same with the sink enabled (BQ_ENABLE=true).
C22_NoRecordLost ==
    bq_enable => \A p \in Procs : \A t \in Skipped(p) : HasRow(t)

\* after a run whose state write followed an insert, a second run that
\* fetched a later range skipped a record and inserted the next
C22_Witness ==
    /\ bq_enable
    /\ Returned_Ok(2)
    /\ Skipped(2) # {}
    /\ inserted[2] # << >>
    /\ spot_prices[2] # spot_prices[1]

====
